---- MODULE Spec2Model ----
(***************************************************************************)
(* Model of parampool's DataItem (parampool/menu/DataItem.py): a named    *)
(* parameter whose value(s) are assigned as strings, run through unit     *)
(* handling and a str2type conversion rule, and validated; and of its     *)
(* SubTree (parampool/tree/SubTree.py): a submenu, a list of items.       *)
(*                                                                         *)
(* Python values are records tagged with their type name in field t:      *)
(*   None  [t |-> "NoneType"]          str   [t |-> "str",   s |-> chars]  *)
(*   int   [t |-> "int",   n |-> i]     float [t |-> "float", n |-> i]      *)
(*   bool  [t |-> "bool",  n |-> 0/1]   complex [t |-> "complex", n |-> i]  *)
(*   list  [t |-> "list",  items |-> values]; tuple, ndarray likewise       *)
(* A string is a sequence of one-character strings.  The floats that the   *)
(* inputs of this model can produce are whole numbers.                     *)
(* A call that can raise returns [exc |-> name, val |-> result]; exc is    *)
(* "none" when the call returns normally.                                  *)
(***************************************************************************)
EXTENDS Integers, Sequences, FiniteSets, TLC

(* pc               "new" before the constructor runs, "live" once the      *)
(*                  item exists, "failed" when the constructor raised        *)
(* kwargs           the keyword arguments the constructor was called with   *)
(* data             self.data, the attributes of the item                   *)
(* _values          self._values                                            *)
(* _assigned_value  self._assigned_value                                    *)
(* last             the last call: its name, its argument and the           *)
(*                  exception it raised ("none" when it returned)           *)
VARIABLES pc, kwargs, data, _values, _assigned_value, last

(* trees            the SubTree objects in the order of their construction: *)
(*                  trees[k] holds the fields name, tree and parent of the  *)
(*                  k-th one                                                *)
(* parent_arg       parent_arg[k] is the parent argument that trees[k] was  *)
(*                  constructed with (None when it was left out)            *)
(* add_args         add_args[k] lists the items of the add calls on         *)
(*                  trees[k] that returned, in the order of the calls       *)
(* tlast            the last call on a SubTree: its name, the object it     *)
(*                  was called on, the exception it raised, what            *)
(*                  get_parent returned and what iteration yielded          *)
VARIABLES trees, parent_arg, add_args, tlast

item_vars == <<pc, kwargs, data, _values, _assigned_value, last>>

tree_vars == <<trees, parent_arg, add_args, tlast>>

vars == <<pc, kwargs, data, _values, _assigned_value, last,
          trees, parent_arg, add_args, tlast>>

----------------------------------------------------------------------------
(* Python values *)

PyNone == [t |-> "NoneType"]

PyStr(chars) == [t |-> "str", s |-> chars]

PyInt(i) == [t |-> "int", n |-> i]

PyFloat(i) == [t |-> "float", n |-> i]

PyComplex(i) == [t |-> "complex", n |-> i]

PyBool(b) == [t |-> "bool", n |-> IF b THEN 1 ELSE 0]

PyList(xs) == [t |-> "list", items |-> xs]

PyArray(xs) == [t |-> "ndarray", items |-> xs]

PyObject == [t |-> "object"]

Ok(v) == [exc |-> "none", val |-> v]

Raise(e) == [exc |-> e, val |-> PyNone]

NumericTypes == {"int", "float", "bool", "complex"}

(* Python's == on the values of the model: numbers compare by value       *)
(* across int, float, bool and complex, everything else by type and        *)
(* content.                                                                *)
PyEq(a, b) ==
  IF a.t \in NumericTypes /\ b.t \in NumericTypes THEN a.n = b.n
  ELSE IF a.t # b.t THEN FALSE
  ELSE a = b

(* Python 2's <= between arbitrary values: numbers by value, two strings   *)
(* are not needed here, and a number is smaller than any non-number.       *)
PyLe(a, b) ==
  IF a.t \in NumericTypes /\ b.t \in NumericTypes THEN a.n <= b.n
  ELSE IF a.t \in NumericTypes THEN TRUE
  ELSE IF b.t \in NumericTypes THEN FALSE
  ELSE a.t = b.t

----------------------------------------------------------------------------
(* Characters and strings *)

Digits == {"0", "1", "2", "3", "4", "5", "6", "7", "8", "9"}

DigitVal(c) ==
  CASE c = "0" -> 0 [] c = "1" -> 1 [] c = "2" -> 2 [] c = "3" -> 3
    [] c = "4" -> 4 [] c = "5" -> 5 [] c = "6" -> 6 [] c = "7" -> 7
    [] c = "8" -> 8 [] c = "9" -> 9

Letters == {"a", "b", "e", "f", "k", "l", "m", "n", "o", "r", "s", "t",
            "u", "y", "A", "B", "E", "N", "O"}

Whitespace == {" "}

(* str.lower() *)
LowerChar(c) ==
  CASE c = "A" -> "a" [] c = "B" -> "b" [] c = "E" -> "e"
    [] c = "N" -> "n" [] c = "O" -> "o" [] OTHER -> c

lower(chars) == [i \in 1..Len(chars) |-> LowerChar(chars[i])]

RECURSIVE lstrip(_)
lstrip(chars) ==
  IF chars # <<>> /\ Head(chars) \in Whitespace THEN lstrip(Tail(chars))
  ELSE chars

RECURSIVE rstrip(_)
rstrip(chars) ==
  IF chars # <<>> /\ chars[Len(chars)] \in Whitespace
  THEN rstrip(SubSeq(chars, 1, Len(chars) - 1))
  ELSE chars

(* str.strip() *)
strip(chars) == rstrip(lstrip(chars))

(* value.split('&'): the pieces between the separators, left to right *)
RECURSIVE split(_)
split(chars) ==
  IF \A i \in 1..Len(chars) : chars[i] # "&" THEN <<chars>>
  ELSE LET p == CHOOSE i \in 1..Len(chars) :
                  chars[i] = "&" /\ \A j \in 1..(i - 1) : chars[j] # "&"
       IN <<SubSeq(chars, 1, p - 1)>> \o split(SubSeq(chars, p + 1, Len(chars)))

AllIn(chars, S) == \A i \in 1..Len(chars) : chars[i] \in S

RECURSIVE ParseNat(_)
ParseNat(chars) ==
  IF chars = <<>> THEN 0
  ELSE 10 * ParseNat(SubSeq(chars, 1, Len(chars) - 1))
       + DigitVal(chars[Len(chars)])

(* A decimal numeral of the model's alphabet, surrounding blanks allowed   *)
(* (float(), int(), complex() and eval() all ignore them).                 *)
IsNumeral(chars) == strip(chars) # <<>> /\ AllIn(strip(chars), Digits)

NumeralValue(chars) == ParseNat(strip(chars))

----------------------------------------------------------------------------
(* Scientific.Physics.PhysicalQuantities.PhysicalQuantity, as far as       *)
(* DataItem uses it: the units the model knows, each with its dimension    *)
(* and its factor to the base unit of that dimension.                      *)

UnitNames == {<<"m">>, <<"k", "m">>, <<"s">>}

UnitDimension(u) == IF u = <<"s">> THEN "time" ELSE "length"

UnitFactor(u) == IF u = <<"k", "m">> THEN 1000 ELSE 1

NumberChars == Digits \cup {"E", "e", ".", "+", "-"}

UnitChars == Letters \cup Digits \cup {"*", "/"}

BlankPositions(chars) == {i \in 1..Len(chars) : chars[i] = " "}

FirstBlank(chars) ==
  CHOOSE i \in BlankPositions(chars) : \A j \in BlankPositions(chars) : i <= j

LastBlank(chars) ==
  CHOOSE i \in BlankPositions(chars) : \A j \in BlankPositions(chars) : j <= i

(* The regular expression of line 178 on a string without the blanks at   *)
(* its ends: number characters, one run of blanks, unit characters.        *)
MatchesNumberUnit(body) ==
  /\ BlankPositions(body) # {}
  /\ \A i \in FirstBlank(body)..LastBlank(body) : body[i] = " "
  /\ FirstBlank(body) > 1
  /\ LastBlank(body) < Len(body)
  /\ AllIn(SubSeq(body, 1, FirstBlank(body) - 1), NumberChars)
  /\ AllIn(SubSeq(body, LastBlank(body) + 1, Len(body)), UnitChars)

(* re.search(r'^\s*([Ee.0-9+-]+) +([A-Za-z0-9*/]+)\s*$', value) *)
number_with_unit(chars) == MatchesNumberUnit(strip(chars))

NumberPart(body) == SubSeq(body, 1, FirstBlank(body) - 1)

UnitPart(body) == SubSeq(body, LastBlank(body) + 1, Len(body))

(* A quantity [value, unit] from the number and the unit name; TypeError   *)
(* without a number, NameError for an unknown unit name.                   *)
Quantity(number, unit) ==
  IF ~IsNumeral(number) THEN Raise("TypeError")
  ELSE IF unit \notin UnitNames THEN Raise("NameError")
  ELSE Ok([value |-> NumeralValue(number), unit |-> unit])

ParseQuantity(body) == Quantity(NumberPart(body), UnitPart(body))

(* PQ(value) *)
PQ(chars) == ParseQuantity(strip(chars))

(* q.isCompatible(unit) *)
isCompatible(q, unit) ==
  unit \in UnitNames /\ UnitDimension(q.unit) = UnitDimension(unit)

(* q.convertToUnit(unit); the model registers base units only, so the      *)
(* result is a whole number.                                               *)
convertToUnit(q, unit) ==
  [value |-> (q.value * UnitFactor(q.unit)) \div UnitFactor(unit),
   unit |-> unit]

----------------------------------------------------------------------------
(* Conversion rules (str2type) *)

true_values == {<<"o", "n">>, <<"t", "r", "u", "e">>, <<"y", "e", "s">>}

false_values == {<<"o", "f", "f">>, <<"f", "a", "l", "s", "e">>, <<"n", "o">>}

str2bool(s) ==
  IF s.t = "str"
  THEN IF lower(s.s) \in true_values THEN Ok(PyBool(TRUE))
       ELSE IF lower(s.s) \in false_values THEN Ok(PyBool(FALSE))
       ELSE Raise("ValueError")
  ELSE Raise("TypeError")

IsName(chars) == chars # <<>> /\ AllIn(chars, Letters)

IsListLiteral(chars) ==
  /\ Len(chars) >= 3
  /\ chars[1] = "[" /\ chars[Len(chars)] = "]"
  /\ IsNumeral(SubSeq(chars, 2, Len(chars) - 1))

(* Python's eval(value, namespace) on the expressions of the model: a      *)
(* numeral, a one-element list literal or a name; namespace maps the       *)
(* names that are defined to their values.  A non-string argument is a     *)
(* TypeError.                                                              *)
PyEval(v, namespace) ==
  IF v.t # "str" THEN Raise("TypeError")
  ELSE LET expr == strip(v.s)
       IN IF IsNumeral(expr) THEN Ok(PyInt(NumeralValue(expr)))
          ELSE IF IsListLiteral(expr)
            THEN Ok(PyList(<<PyInt(NumeralValue(SubSeq(expr, 2, Len(expr) - 1)))>>))
          ELSE IF IsName(expr)
            THEN IF expr \in DOMAIN namespace THEN Ok(namespace[expr])
                 ELSE Raise("NameError")
          ELSE Raise("SyntaxError")

(* The names eval finds without a namespace argument (the module's and    *)
(* those of math): none of them is spelt by an argument of the model.      *)
ModuleNamespace == [x \in {} |-> PyNone]

(* float(v), int(v), complex(v) *)
PyNumber(type, v) ==
  IF v.t = "str"
  THEN IF IsNumeral(v.s) THEN Ok([t |-> type, n |-> NumeralValue(v.s)])
       ELSE Raise("ValueError")
  ELSE IF v.t \in NumericTypes THEN Ok([t |-> type, n |-> v.n])
  ELSE Raise("TypeError")

(* numpy.asarray(x) *)
asarray(x) ==
  IF x.t \in {"list", "ndarray"} THEN PyArray(x.items) ELSE PyArray(<<x>>)

AndThenArray(evaluated) ==
  IF evaluated.exc # "none" THEN evaluated ELSE Ok(asarray(evaluated.val))

AndThenInt(number) ==
  IF number.exc # "none" THEN number ELSE PyNumber("int", number.val)

(* self.data['str2type'](value) for the callables of the model:            *)
(*   float, int, complex, str2bool,                                        *)
(*   asarray_eval  lambda s: numpy.asarray(eval(s))        (line 72)       *)
(*   Str2d         int(round(float(s))), a user's callable (lines 401-403) *)
(* with the exception the callable itself raises.                          *)
CallStr2type(rule, v) ==
  CASE rule \in {"float", "int", "complex"} -> PyNumber(rule, v)
    [] rule = "str2bool" -> str2bool(v)
    [] rule = "asarray_eval" ->
         AndThenArray(PyEval(v, ModuleNamespace))
    [] rule = "Str2d" ->
         AndThenInt(PyNumber("float", v))

----------------------------------------------------------------------------
(* DataItem *)

(* The attributes of the table in the class documentation, lines 12-30 *)
DocumentedAttributes ==
  {"name", "default", "unit", "help", "str2type", "value", "minmax",
   "options", "widget", "namespace", "user_data", "validate", "symbol"}

_legal_data ==
  {"name", "default", "unit", "help", "value", "str2type", "minmax",
   "options", "widget", "validator", "namespace", "user_data", "symbol"}

(* InferStr2type with the test for a number ahead of the test for a       *)
(* boolean: True and False are then taken for ints.                        *)
InferStr2type_bool_as_int(default) ==
  CASE default.t = "NoneType" -> "str"
    [] default.t = "str" -> "str"
    [] default.t = "bool" -> "int"
    [] default.t \in {"tuple", "list", "dict"} -> "eval"
    [] default.t = "ndarray" -> "asarray_eval"
    [] default.t \in {"float", "int", "complex"} -> default.t
    [] OTHER -> "eval"

(* The rule __init__ registers when no str2type argument is given *)
InferStr2type(default) ==
  CASE default.t = "NoneType" -> "str"
    [] default.t = "str" -> "str"
    [] default.t = "bool" -> "str2bool"
    [] default.t \in {"tuple", "list", "dict"} -> "eval"
    [] default.t = "ndarray" -> "asarray_eval"
    [] default.t \in {"float", "int", "complex"} -> default.t
    [] OTHER -> "eval"

(* TypeError for a minmax that is no 2-list/tuple, for options that are    *)
(* no list/tuple, for a help or widget that is no string.                  *)
_check_validity_of_data(d) ==
  IF "minmax" \in DOMAIN d /\ d["minmax"].t \notin {"list", "tuple"}
    THEN "TypeError"
  ELSE IF "minmax" \in DOMAIN d /\ Len(d["minmax"].items) # 2
    THEN "TypeError"
  ELSE IF "options" \in DOMAIN d /\ d["options"].t \notin {"list", "tuple"}
    THEN "TypeError"
  ELSE IF \E attr \in {"help", "widget"} :
            attr \in DOMAIN d /\ d[attr].t # "str"
    THEN "TypeError"
  ELSE "none"

WithDefault(kw) ==
  IF "default" \in DOMAIN kw THEN kw ELSE kw @@ ("default" :> PyNone)

WithStr2type(d) ==
  IF "str2type" \in DOMAIN d THEN d
  ELSE d @@ ("str2type" :> InferStr2type(d["default"]))

NoData == [x \in {} |-> PyNone]

(* DataItem.__init__ with keyword arguments kw: [exc, data]; data is      *)
(* self.data of the new item.                                              *)
__init__(kw) ==
  IF "name" \notin DOMAIN kw THEN [exc |-> "ValueError", data |-> NoData]
  ELSE IF \E arg \in DOMAIN WithDefault(kw) : arg \notin _legal_data
    THEN [exc |-> "ValueError", data |-> NoData]
  ELSE [exc |-> _check_validity_of_data(WithStr2type(WithDefault(kw))),
        data |-> WithStr2type(WithDefault(kw))]

(* ToRegisteredUnit without line 185: a compatible quantity keeps the     *)
(* number as it was written.                                               *)
ToRegisteredUnit_unconverted(d, value, q) ==
  IF q.exc # "none" THEN [exc |-> q.exc, val |-> value, data |-> d]
  ELSE IF "unit" \in DOMAIN d
    THEN IF d["unit"] # q.val.unit /\ ~isCompatible(q.val, d["unit"])
         THEN [exc |-> "DataItemValueError", val |-> value, data |-> d]
         ELSE [exc |-> "none", val |-> PyFloat(q.val.value), data |-> d]
  ELSE [exc |-> "NameError", val |-> value, data |-> d]

(* Lines 181-195 of _handle_unit_conversion for the quantity q that       *)
(* PQ(value) made.  Line 194 evaluates the undefined name unit, so         *)
(* registering a unit is a NameError and self.data stays as it was.        *)
ToRegisteredUnit(d, value, q) ==
  IF q.exc # "none" THEN [exc |-> q.exc, val |-> value, data |-> d]
  ELSE IF "unit" \in DOMAIN d
    THEN IF d["unit"] # q.val.unit
         THEN IF isCompatible(q.val, d["unit"])
              THEN [exc |-> "none",
                    val |-> PyFloat(convertToUnit(q.val, d["unit"]).value),
                    data |-> d]
              ELSE [exc |-> "DataItemValueError", val |-> value, data |-> d]
         ELSE [exc |-> "none", val |-> PyFloat(q.val.value), data |-> d]
  ELSE [exc |-> "NameError", val |-> value, data |-> d]

(* _handle_unit_conversion(self, value): [exc, val, data] *)
_handle_unit_conversion(d, value) ==
  IF number_with_unit(value.s) THEN ToRegisteredUnit(d, value, PQ(value.s))
  ELSE [exc |-> "none", val |-> value, data |-> d]

(* try: value = eval(value) except: pass, lines 139-146 *)
OrUnchanged(evaluated, value) ==
  IF evaluated.exc = "none" THEN evaluated ELSE Ok(value)

(* OrTypeError without the except clause: the exception of the            *)
(* conversion rule passes through.                                         *)
OrTypeError_reraised(converted) == converted

(* try: ... except Exception, e: raise TypeError(...), lines 148-154 *)
OrTypeError(converted) ==
  IF converted.exc = "none" THEN converted ELSE Raise("TypeError")

(* The conversion step of _process_value, lines 127-156, on the value      *)
(* that unit handling returned.                                            *)
ConvertValue(d, value) ==
  IF "str2type" \notin DOMAIN d THEN Ok(value)
  ELSE IF d["str2type"] = "str" THEN Ok(value)
  ELSE IF d["str2type"] = "eval"
    THEN IF "namespace" \in DOMAIN d THEN PyEval(value, d["namespace"])
         ELSE OrUnchanged(PyEval(value, ModuleNamespace), value)
  ELSE OrTypeError(CallStr2type(d["str2type"], value))

WithData(c, d) == [exc |-> c.exc, val |-> c.val, data |-> d]

AfterUnitHandling(u) ==
  IF u.exc # "none" THEN u
  ELSE WithData(ConvertValue(u.data, u.val), u.data)

(* _process_value(self, value): [exc, val, data] *)
_process_value(d, value) == AfterUnitHandling(_handle_unit_conversion(d, value))

(* _validate without its options branch (lines 166-170 left out) *)
_validate_minmax_only(d, value) ==
  IF "minmax" \in DOMAIN d /\ value.t = "complex" THEN "TypeError"
  ELSE IF /\ "minmax" \in DOMAIN d
          /\ ~(/\ PyLe(d["minmax"].items[1], value)
               /\ PyLe(value, d["minmax"].items[2]))
    THEN "NameError"
  ELSE "none"

(* DataItem._validate(self, value): the exception it raises, or "none".    *)
(* Line 162 names the undefined DataItmValueError, so a value outside      *)
(* minmax is a NameError; ordering a complex number is a TypeError.        *)
_validate(d, value) ==
  IF "minmax" \in DOMAIN d /\ value.t = "complex" THEN "TypeError"
  ELSE IF /\ "minmax" \in DOMAIN d
          /\ ~(/\ PyLe(d["minmax"].items[1], value)
               /\ PyLe(value, d["minmax"].items[2]))
    THEN "NameError"
  ELSE IF /\ "options" \in DOMAIN d
          /\ \A i \in 1..Len(d["options"].items) :
               ~PyEq(value, d["options"].items[i])
    THEN "DataItemValueError"
  ELSE "none"

(* The user's validator of test_DataItem_validate, lines 424-432: a        *)
(* case-insensitive membership test.                                       *)
Validate(legal_values, value) ==
  IF value.t # "str" THEN "AttributeError"
  ELSE IF \A i \in 1..Len(legal_values) :
            lower(value.s) # lower(legal_values[i])
    THEN "DataItemValueError"
  ELSE "none"

(* validate = self.data.get('validate', DataItem._validate), looked up in *)
(* the attributes d0 the call started with, and validate(self, value) on   *)
(* the item as it is then, with attributes d.                              *)
CallValidate(d0, d, value) ==
  IF "validate" \in DOMAIN d0 THEN Validate(d0["validate"], value)
  ELSE _validate(d, value)

(* InitialValues without the v.strip() of line 217 *)
InitialValues_unstripped(chars) ==
  IF \E i \in 1..Len(chars) : chars[i] = "&"
  THEN [i \in 1..Len(split(chars)) |-> PyStr(split(chars)[i])]
  ELSE <<PyStr(chars)>>

(* The segments set_value starts from, lines 216-219 *)
InitialValues(chars) ==
  IF \E i \in 1..Len(chars) : chars[i] = "&"
  THEN [i \in 1..Len(split(chars)) |-> PyStr(strip(split(chars)[i]))]
  ELSE <<PyStr(chars)>>

(* One round of the loop of set_value, lines 223-225, on the item as the  *)
(* rounds before left it (item = [exc, values, data]): r is what           *)
(* _process_value returned for segment i and e what validate raised.       *)
StoreValue(item, i, r, e) ==
  IF r.exc # "none"
    THEN [exc |-> r.exc, values |-> item.values, data |-> r.data]
  ELSE IF e # "none"
    THEN [exc |-> e, values |-> item.values, data |-> r.data]
  ELSE [exc |-> "none", values |-> [item.values EXCEPT ![i] = r.val],
        data |-> r.data]

Validated(d, i, item, r) ==
  StoreValue(item, i, r, CallValidate(d, r.data, r.val))

Round(d, i, item) ==
  IF item.exc # "none" THEN item
  ELSE Validated(d, i, item, _process_value(item.data, item.values[i]))

(* The loop of set_value, lines 222-225: process, validate, store, one    *)
(* segment after the other.  An exception leaves the loop with the values  *)
(* converted so far and the remaining segments as they were.               *)
ProcessValues(d, values) ==
  LET done[i \in 0..Len(values)] ==
        IF i = 0 THEN [exc |-> "none", values |-> values, data |-> d]
        ELSE Round(d, i, done[i - 1])
  IN done[Len(values)]

Assigned(this, r) ==
  [exc |-> r.exc,
   self |-> [data |-> r.data,
             _values |-> r.values,
             _assigned_value |->
               IF r.exc = "none" THEN TRUE ELSE this._assigned_value]]

(* set_value with the assignment to self._values ahead of the test of     *)
(* line 212: a non-string argument is stored before the ValueError.        *)
set_value_stores_first(this, value) ==
  IF value.t # "str"
  THEN [exc |-> "ValueError",
        self |-> [data |-> this.data, _values |-> <<value>>,
                  _assigned_value |-> this._assigned_value]]
  ELSE Assigned(this, ProcessValues(this.data, InitialValues(value.s)))

(* set_value(self, value) on this = [data, _values, _assigned_value]:      *)
(* [exc, self] with self as the call leaves it.                            *)
set_value(this, value) ==
  IF value.t # "str" THEN [exc |-> "ValueError", self |-> this]
  ELSE Assigned(this, ProcessValues(this.data, InitialValues(value.s)))

(* get(self, attribute_name) on self.data = d *)
get(d, attribute_name) ==
  IF attribute_name \in DOMAIN d THEN Ok(d[attribute_name])
  ELSE Raise("ValueError")

get_values(this) == this._values

get_value(this) == get_values(this)[1]

has_multiple_values(this) == Len(this._values) > 1

----------------------------------------------------------------------------
(* SubTree.  An object of the class is referred to by its position in     *)
(* trees, so that one object can sit in several lists and be a parent.     *)

SubTreeRef(k) == [t |-> "SubTree", id |-> k]

(* A DataItem as an item of a menu: an object with a name attribute *)
Leaf == [t |-> "DataItem", name |-> "A"]

IsNone(value) == value.t = "NoneType"

(* SubTree.__init__(self, name, parent=None, level=0) *)
SubTree(name, parent, level) ==
  [name |-> name, tree |-> <<>>, parent |-> parent]

(* isinstance(item, SubTree) or hasattr(item, 'name') *)
IsSubTreeOrNamed(item) == item.t = "SubTree" \/ "name" \in DOMAIN item

(* add putting the item in front of the list instead of at its end *)
add_prepends(this, item) ==
  IF ~IsSubTreeOrNamed(item) THEN [exc |-> "AssertionError", self |-> this]
  ELSE [exc |-> "none", self |-> [this EXCEPT !.tree = <<item>> \o @]]

(* SubTree.add(self, item): [exc, self] *)
add(this, item) ==
  IF ~IsSubTreeOrNamed(item) THEN [exc |-> "AssertionError", self |-> this]
  ELSE [exc |-> "none", self |-> [this EXCEPT !.tree = Append(@, item)]]

(* get_parent returning None for a SubTree without parent instead of     *)
(* raising.                                                                *)
get_parent_returns_none(this) ==
  [exc |-> "none", val |-> this.parent, self |-> this]

(* SubTree.get_parent(self): [exc, val, self] *)
get_parent(this) ==
  IF IsNone(this.parent)
    THEN [exc |-> "ValueError", val |-> PyNone, self |-> this]
  ELSE [exc |-> "none", val |-> this.parent, self |-> this]

(* SubTree.__iter__(self): the items it yields, in order *)
__iter__(this) == this.tree

----------------------------------------------------------------------------
(* Constructor arguments *)

Name == "name" :> PyStr(<<"A">>)

Defaults ==
  {PyNone, PyStr(<<"a">>), PyBool(TRUE), PyFloat(1), PyInt(2), PyComplex(2),
   PyList(<<PyInt(1)>>), [t |-> "tuple", items |-> <<PyInt(1)>>],
   [t |-> "dict"], PyArray(<<PyInt(1)>>), PyObject}

Metre == <<"m">>

MinMax == PyList(<<PyInt(2), PyInt(5)>>)

Words == PyList(<<PyStr(<<"a">>), PyStr(<<"b">>)>>)

Numbers == PyList(<<PyInt(2), PyInt(7)>>)

Kwargs ==
  {Name, "default" :> PyFloat(1), Name @@ ("foo" :> PyInt(1))}
  \cup {Name @@ ("default" :> dflt) : dflt \in Defaults}
  \cup {Name @@ ("default" :> PyInt(2)) @@ ("str2type" :> rule) :
          rule \in {"eval", "float", "Str2d", "str2bool"}}
  \cup {Name @@ ("default" :> PyStr(<<"a">>)) @@ ("str2type" :> "float")}
  \cup {Name @@ ("default" :> dflt) @@ ("unit" :> Metre) :
          dflt \in {PyFloat(1), PyStr(<<"a">>), PyInt(2), PyBool(TRUE)}}
  \cup {Name @@ ("default" :> PyInt(2)) @@ ("str2type" :> "eval")
             @@ ("unit" :> Metre)}
  \cup {Name @@ ("default" :> dflt) @@ ("minmax" :> MinMax) :
          dflt \in {PyFloat(1), PyInt(2)}}
  \cup {Name @@ ("default" :> PyInt(2))
             @@ ("minmax" :> PyList(<<PyInt(2), PyInt(5), PyInt(7)>>))}
  \cup {Name @@ ("default" :> PyStr(<<"a">>)) @@ ("options" :> Words),
        Name @@ ("default" :> PyInt(2)) @@ ("options" :> Numbers),
        Name @@ ("default" :> PyInt(2)) @@ ("options" :> Numbers)
             @@ ("minmax" :> MinMax)}
  \cup {Name @@ ("default" :> PyStr(<<"a">>)) @@ ("options" :> Words)
             @@ (key :> <<<<"a">>, <<"b">>>>) :
          key \in {"validate", "validator"}}
  \cup {Name @@ ("default" :> PyInt(2)) @@ ("str2type" :> "eval")
             @@ ("namespace" :> (<<"a">> :> PyInt(5)))}
  \cup {Name @@ ("default" :> PyFloat(1)) @@ ("help" :> PyStr(<<"a">>))
             @@ ("value" :> PyFloat(1)) @@ ("widget" :> PyStr(<<"a">>))
             @@ ("user_data" :> PyNone) @@ ("symbol" :> PyStr(<<"a">>))}

----------------------------------------------------------------------------
(* Arguments of set_value *)

MaxValues == 2

SingleValues ==
  {<<"1">>, <<"2">>, <<"5">>, <<"7">>, <<"a">>, <<"b">>, <<"A">>,
   <<"o", "n">>, <<"n", "o">>, <<>>, <<"[", "1", "]">>,
   <<"2", " ", "m">>, <<"2", " ", "k", "m">>, <<"2", " ", "s">>,
   <<" ", "a">>, <<"a", " ">>, <<" ", "2", " ">>,
   <<" ", "2", " ", "k", "m", " ">>}

Segments == {<<"2">>, <<" ", "a", " ">>, <<"2", " ", "k", "m">>}

RECURSIVE Join(_)
Join(segs) ==
  IF Len(segs) = 1 THEN segs[1]
  ELSE segs[1] \o <<"&">> \o Join(Tail(segs))

MultipleValues ==
  {Join(segs) : segs \in UNION {[1..k -> Segments] : k \in 2..MaxValues}}

Arguments ==
  {PyStr(chars) : chars \in SingleValues \cup MultipleValues}
  \cup {PyInt(2), PyNone}

----------------------------------------------------------------------------
(* The state machine: one DataItem, constructed once and then assigned to *)

self == [data |-> data, _values |-> _values,
         _assigned_value |-> _assigned_value]

Init ==
  /\ pc = "new"
  /\ kwargs = NoData
  /\ data = NoData
  /\ _values = <<>>
  /\ _assigned_value = FALSE
  /\ last = [op |-> "none", exc |-> "none", arg |-> PyNone]
  /\ trees = <<>>
  /\ parent_arg = <<>>
  /\ add_args = <<>>
  /\ tlast = [op |-> "none", node |-> 0, exc |-> "none", val |-> PyNone,
              yielded |-> <<>>]

Constructed(kw, new) ==
  /\ kwargs' = kw
  /\ last' = [op |-> "__init__", exc |-> new.exc, arg |-> PyNone]
  /\ IF new.exc = "none"
     THEN /\ pc' = "live"
          /\ data' = new.data
          /\ _values' = <<new.data["default"]>>
          /\ _assigned_value' = FALSE
     ELSE /\ pc' = "failed"
          /\ UNCHANGED <<data, _values, _assigned_value>>

Construct ==
  /\ pc = "new"
  /\ \E kw \in Kwargs : Constructed(kw, __init__(kw))
  /\ UNCHANGED tree_vars

Returned(value, call) ==
  /\ data' = call.self.data
  /\ _values' = call.self._values
  /\ _assigned_value' = call.self._assigned_value
  /\ last' = [op |-> "set_value", exc |-> call.exc, arg |-> value]
  /\ UNCHANGED <<pc, kwargs>>

SetValue ==
  /\ pc = "live"
  /\ \E value \in Arguments : Returned(value, set_value(self, value))
  /\ UNCHANGED tree_vars

Next == Construct \/ SetValue

Spec == Init /\ [][Next]_vars

----------------------------------------------------------------------------
(* The state machine of the menu tree: SubTree objects are constructed,   *)
(* items are added to them, their parent is asked for and they are         *)
(* iterated over, in any order.                                            *)

MaxTrees == 2

MaxAdds == 3

TreeNames == {"main"}

Levels == {0, 1}

(* The objects that exist when n SubTrees have been constructed: what a   *)
(* call can pass as parent and as item.                                    *)
SubTrees(n) == {SubTreeRef(k) : k \in 1..n}

Parents(n) == {PyNone} \cup SubTrees(n)

Items(n) == SubTrees(n) \cup {Leaf, PyObject}

Call(op, k, exc, val, yielded) ==
  [op |-> op, node |-> k, exc |-> exc, val |-> val, yielded |-> yielded]

NewSubTree ==
  /\ Len(trees) < MaxTrees
  /\ \E name \in TreeNames, parent \in Parents(Len(trees)), level \in Levels :
       /\ trees' = Append(trees, SubTree(name, parent, level))
       /\ parent_arg' = Append(parent_arg, parent)
  /\ add_args' = Append(add_args, <<>>)
  /\ tlast' = Call("__init__", Len(trees) + 1, "none", PyNone, <<>>)
  /\ UNCHANGED item_vars

(* The number of items in the lists of the first n SubTrees *)
RECURSIVE Stored(_)
Stored(n) == IF n = 0 THEN 0 ELSE Len(trees[n].tree) + Stored(n - 1)

Added(k, item, call) ==
  /\ trees' = [trees EXCEPT ![k] = call.self]
  /\ add_args' = IF call.exc = "none"
                 THEN [add_args EXCEPT ![k] = Append(@, item)]
                 ELSE add_args
  /\ tlast' = Call("add", k, call.exc, PyNone, <<>>)

Add ==
  /\ Stored(Len(trees)) < MaxAdds
  /\ \E k \in 1..Len(trees), item \in Items(Len(trees)) :
       Added(k, item, add(trees[k], item))
  /\ UNCHANGED <<parent_arg, item_vars>>

GotParent(k, call) ==
  /\ trees' = [trees EXCEPT ![k] = call.self]
  /\ tlast' = Call("get_parent", k, call.exc, call.val, <<>>)

GetParent ==
  /\ \E k \in 1..Len(trees) : GotParent(k, get_parent(trees[k]))
  /\ UNCHANGED <<parent_arg, add_args, item_vars>>

Iterate ==
  /\ \E k \in 1..Len(trees) :
       tlast' = Call("__iter__", k, "none", PyNone, __iter__(trees[k]))
  /\ UNCHANGED <<trees, parent_arg, add_args, item_vars>>

TreeNext == NewSubTree \/ Add \/ GetParent \/ Iterate

TreeSpec == Init /\ [][TreeNext]_vars

----------------------------------------------------------------------------
(* Vocabulary of the properties *)

(* The last call was set_value with a string argument *)
AssignedString == pc = "live" /\ last.op = "set_value" /\ last.arg.t = "str"

Separators(chars) == {i \in 1..Len(chars) : chars[i] = "&"}

(* Position of the j-th '&' of chars; 0 before the first segment and       *)
(* Len(chars) + 1 after the last one.                                      *)
SeparatorAt(chars, j) ==
  IF j = 0 THEN 0
  ELSE IF j > Cardinality(Separators(chars)) THEN Len(chars) + 1
  ELSE CHOOSE p \in Separators(chars) :
         Cardinality({q \in Separators(chars) : q < p}) = j - 1

(* The i-th '&'-separated segment of chars, as written *)
SegmentAt(chars, i) ==
  SubSeq(chars, SeparatorAt(chars, i - 1) + 1, SeparatorAt(chars, i) - 1)

SingleSegment(chars) == Separators(chars) = {}

IsMember(value, options) ==
  \E i \in 1..Len(options.items) : PyEq(value, options.items[i])

Unconstrained == "minmax" \notin DOMAIN data /\ "options" \notin DOMAIN data

----------------------------------------------------------------------------
(* C1: get_values() is [default] before the first assignment and          *)
(* otherwise holds, for every segment of the most recent assignment        *)
(* string, its converted and validated value; no unconverted or            *)
(* unvalidated element is ever exposed, also after a call that raised.     *)
C1_ValuesConvertedAndValidated ==
  /\ (pc = "live" /\ last.op = "__init__") => _values = <<data["default"]>>
  /\ AssignedString =>
       \A i \in 1..Len(get_values(self)) :
         \E chars \in {SegmentAt(last.arg.s, i),
                       strip(SegmentAt(last.arg.s, i))} :
           LET processed == _process_value(data, PyStr(chars))
           IN /\ processed.exc = "none"
              /\ get_values(self)[i] = processed.val
              /\ CallValidate(data, data, processed.val) = "none"

(* What conversion makes of the argument of the last call taken as one    *)
(* segment, as written.                                                    *)
Processed == _process_value(data, last.arg)

(* The last call assigned a string without '&' that conversion accepts *)
AssignedOne ==
  AssignedString /\ SingleSegment(last.arg.s) /\ Processed.exc = "none"

NoValidator ==
  "validate" \notin DOMAIN kwargs /\ "validator" \notin DOMAIN kwargs

InRange(value, minmax) ==
  minmax.items[1].n <= value.n /\ value.n <= minmax.items[2].n

(* C2: with minmax=[lo, hi] and no custom validator, set_value returns    *)
(* normally and stores the converted value v when lo <= v <= hi, and       *)
(* raises DataItemValueError when v < lo or v > hi.                        *)
C2_MinMaxInclusive ==
  (/\ AssignedOne
   /\ "minmax" \in DOMAIN data /\ "options" \notin DOMAIN data
   /\ NoValidator
   /\ Processed.val.t \in {"int", "float"}) =>
     IF InRange(Processed.val, data["minmax"])
     THEN last.exc = "none" /\ get_values(self) = <<Processed.val>>
     ELSE last.exc = "DataItemValueError"

C4_CustomValidatorUsed ==
  /\ (/\ last.op = "__init__"
      /\ "name" \in DOMAIN kwargs /\ "validate" \in DOMAIN kwargs
      /\ (DOMAIN kwargs) \ {"validate"} \subseteq _legal_data)
       => last.exc = "none"
  /\ (AssignedOne /\ "validate" \in DOMAIN kwargs)
       => (last.exc = "none" <=>
             Validate(kwargs["validate"], Processed.val) = "none")

(* [number, unit] of a string of the form '<number> <unit>' *)
Written(chars) ==
  [number |-> NumeralValue(NumberPart(strip(chars))),
   unit |-> UnitPart(strip(chars))]

(* The conversion rule takes a float as it is or as the same number *)
RuleTakesFloat ==
  \/ data["str2type"] \in {"str", "float", "int", "complex"}
  \/ data["str2type"] = "eval" /\ "namespace" \notin DOMAIN data

DocumentedRule(default) ==
  IF default.t \in {"NoneType", "str"} THEN "str"
  ELSE IF default.t = "bool" THEN "str2bool"
  ELSE IF default.t \in {"int", "float", "complex"} THEN default.t
  ELSE "eval"

(* C6: the rule of an item is the explicit str2type argument when one is  *)
(* given, whatever the default; otherwise str for a missing, None or       *)
(* string default, str2bool for a boolean, the default's type for an int,  *)
(* float or complex, and eval for list, tuple, dict and any other default. *)
C6_RulePriority ==
  pc = "live" =>
    data["str2type"] =
      IF "str2type" \in DOMAIN kwargs THEN kwargs["str2type"]
      ELSE DocumentedRule(data["default"])

(* C6 amended: as C6, except that a numpy array default gets the rule     *)
(* lambda s: numpy.asarray(eval(s)), which is not eval: a string that      *)
(* cannot be evaluated is a TypeError under it and is not kept.            *)
C6_RulePriorityAmended ==
  pc = "live" =>
    /\ data["str2type"] =
         IF "str2type" \in DOMAIN kwargs THEN kwargs["str2type"]
         ELSE IF data["default"].t = "ndarray" THEN "asarray_eval"
         ELSE DocumentedRule(data["default"])
    /\ (/\ AssignedOne /\ last.exc = "none"
        /\ ~number_with_unit(last.arg.s)
        /\ "str2type" \in DOMAIN kwargs
        /\ kwargs["str2type"] = "float") => get_value(self).t = "float"
    /\ (/\ AssignedString /\ "str2type" \notin DOMAIN kwargs
        /\ data["default"].t = "ndarray"
        /\ SingleSegment(last.arg.s) /\ ~number_with_unit(last.arg.s)
        /\ PyEval(last.arg, ModuleNamespace).exc # "none")
         => last.exc = "TypeError"

(* C6 witness: an item with a string default and str2type=float has       *)
(* converted an assignment to a float.                                     *)
C6_Witness ==
  /\ AssignedOne /\ last.exc = "none"
  /\ data["default"].t = "str"
  /\ "str2type" \in DOMAIN kwargs /\ kwargs["str2type"] = "float"
  /\ get_value(self).t = "float"

(* C7: when str2type is the type str, float, int or complex inferred from *)
(* the default, the type of get_value() after every set_value that         *)
(* returned normally is str2type, also for strings '<number> <unit>'.      *)
C7_TypeOfValue ==
  (/\ AssignedString /\ last.exc = "none"
   /\ "str2type" \notin DOMAIN kwargs
   /\ data["str2type"] \in {"str", "float", "int", "complex"})
    => get_value(self).t = data["str2type"]

(* Conversion of one segment, as set_value would store it *)
Conversion(chars) == _process_value(data, PyStr(chars)).val

(* C8: for a string with k >= 0 occurrences of '&' a successful           *)
(* set_value stores exactly k+1 values in order, the i-th the conversion   *)
(* of the i-th segment with surrounding whitespace removed;                *)
(* has_multiple_values() is true exactly when k >= 1; surrounding          *)
(* whitespace has no effect on the stored value whether k = 0 or k >= 1.   *)
C8_SegmentsStripped ==
  (AssignedString /\ last.exc = "none") =>
    /\ Len(get_values(self)) = Cardinality(Separators(last.arg.s)) + 1
    /\ \A i \in 1..Len(get_values(self)) :
         get_values(self)[i] = Conversion(strip(SegmentAt(last.arg.s, i)))
    /\ has_multiple_values(self) <=> Cardinality(Separators(last.arg.s)) >= 1

(* C8 amended: as C8, but surrounding whitespace is removed from the      *)
(* segments only when k >= 1; a string without '&' is converted as it is   *)
(* written, so that its surrounding whitespace is kept in the value of a   *)
(* str item.                                                               *)
C8_SegmentsStrippedWhenMultiple ==
  (AssignedString /\ last.exc = "none") =>
    /\ Len(get_values(self)) = Cardinality(Separators(last.arg.s)) + 1
    /\ \A i \in 1..Len(get_values(self)) :
         get_values(self)[i] =
           IF Cardinality(Separators(last.arg.s)) >= 1
           THEN Conversion(strip(SegmentAt(last.arg.s, i)))
           ELSE Conversion(last.arg.s)
    /\ has_multiple_values(self) <=> Cardinality(Separators(last.arg.s)) >= 1
    /\ (/\ data["str2type"] = "str" /\ SingleSegment(last.arg.s)
        /\ ~number_with_unit(last.arg.s))
         => get_value(self) = last.arg

(* C8 witness: ' a &2' was assigned to a str item and 'a', '2' are stored *)
C8_Witness ==
  /\ AssignedString /\ last.exc = "none"
  /\ last.arg.s = <<" ", "a", " ", "&", "2">>
  /\ get_values(self) = <<PyStr(<<"a">>), PyStr(<<"2">>)>>
  /\ has_multiple_values(self)

(* C9: set_value with a non-string argument raises ValueError and leaves  *)
(* get_values(), the attributes (the registered unit among them) and the   *)
(* assigned-from-UI flag as they were.                                     *)
C9_NonStringRejected ==
  [][(pc = "live" /\ last'.op = "set_value" /\ last'.arg.t # "str") =>
       /\ last'.exc = "ValueError"
       /\ _values' = _values
       /\ data' = data
       /\ _assigned_value' = _assigned_value]_vars

(* C9 witness: an item that holds an assigned value has rejected a        *)
(* non-string.                                                             *)
C9_Witness ==
  /\ pc = "live" /\ last.op = "set_value" /\ last.arg.t # "str"
  /\ last.exc = "ValueError"
  /\ _assigned_value /\ get_values(self) # <<data["default"]>>

(* C10: when the conversion rule is a callable other than eval and str    *)
(* and it fails on the assigned string, set_value raises TypeError         *)
(* whatever the rule itself raised; with str2type=eval and no namespace a  *)
(* string that cannot be evaluated is no error and is stored unchanged.    *)
C10_ConversionFailure ==
  (/\ AssignedString /\ SingleSegment(last.arg.s)
   /\ ~number_with_unit(last.arg.s)) =>
    /\ (/\ data["str2type"] \notin {"eval", "str"}
        /\ CallStr2type(data["str2type"], last.arg).exc # "none")
         => last.exc = "TypeError"
    /\ (/\ data["str2type"] = "eval" /\ "namespace" \notin DOMAIN data
        /\ PyEval(last.arg, ModuleNamespace).exc # "none")
         => /\ get_values(self) = <<last.arg>>
            /\ Unconstrained => last.exc = "none"

(* C10 witness: str2bool raised ValueError on an assigned string and      *)
(* set_value raised TypeError.                                             *)
C10_Witness ==
  /\ AssignedString /\ SingleSegment(last.arg.s)
  /\ data["str2type"] = "str2bool"
  /\ str2bool(last.arg).exc = "ValueError"
  /\ last.exc = "TypeError"

(* C14: the constructor raises ValueError without a name argument and    *)
(* for any keyword that is not a documented attribute, and raises no       *)
(* ValueError when it is given a name and documented attributes only.      *)
C14_ConstructorKeywords ==
  last.op = "__init__" =>
    /\ "name" \notin DOMAIN kwargs => last.exc = "ValueError"
    /\ (\E key \in DOMAIN kwargs : key \notin DocumentedAttributes) =>
         last.exc = "ValueError"
    /\ ("name" \in DOMAIN kwargs
        /\ DOMAIN kwargs \subseteq DocumentedAttributes) =>
         last.exc # "ValueError"

(* C15: on an item without registered unit, set_value of                  *)
(* '<number> <unit>' returns, get('unit') then returns the unit written    *)
(* and the number written is the value (for a conversion rule that takes   *)
(* a float, and no minmax or options to fail).                             *)
C15_UnitRegistered ==
  (/\ AssignedString /\ SingleSegment(last.arg.s)
   /\ "unit" \notin DOMAIN kwargs
   /\ number_with_unit(last.arg.s)
   /\ IsNumeral(NumberPart(strip(last.arg.s)))
   /\ UnitPart(strip(last.arg.s)) \in UnitNames
   /\ RuleTakesFloat /\ Unconstrained) =>
    /\ last.exc = "none"
    /\ get(data, "unit").exc = "none"
    /\ get(data, "unit").val = Written(last.arg.s).unit
    /\ get_value(self).t \in NumericTypes
    /\ get_value(self).n = Written(last.arg.s).number

----------------------------------------------------------------------------
(* Properties of the menu tree *)

(* The SubTree objects in the child list of trees[p] *)
ChildTrees(p) ==
  {trees[p].tree[i].id :
     i \in {j \in 1..Len(trees[p].tree) : trees[p].tree[j].t = "SubTree"}}

(* Following parent links from trees[k] ends at an object without parent  *)
(* within the given number of steps.                                       *)
RECURSIVE ReachesRoot(_, _)
ReachesRoot(k, steps) ==
  IF IsNone(trees[k].parent) THEN TRUE
  ELSE IF steps = 0 \/ trees[k].parent.t # "SubTree" THEN FALSE
  ELSE ReachesRoot(trees[k].parent.id, steps - 1)

(* C11: the parent links form a tree: every SubTree in the child list of  *)
(* p has p as its parent, and from it the parent links reach a SubTree     *)
(* without parent, the root, visiting no SubTree twice.                    *)
C11_ParentLinksFormTree ==
  \A p \in 1..Len(trees) : \A c \in ChildTrees(p) :
    /\ trees[c].parent.t = "SubTree" /\ trees[c].parent.id = p
    /\ ReachesRoot(c, Len(trees) - 1)

(* C12: the child list of every SubTree, and what iterating over it       *)
(* yields, is exactly the items of the add calls on that SubTree that      *)
(* returned, once per call and in the order of the calls: nothing of a     *)
(* nested SubTree is yielded, and an add call on another SubTree leaves    *)
(* the list alone.                                                         *)
C12_IterationYieldsAdded ==
  /\ \A k \in 1..Len(trees) : __iter__(trees[k]) = add_args[k]
  /\ tlast.op = "__iter__" => tlast.yielded = add_args[tlast.node]

(* C12 witness: iteration over a SubTree after a leaf and then a SubTree  *)
(* that has an item of its own were added to it.                           *)
C12_Witness ==
  /\ tlast.op = "__iter__"
  /\ Len(add_args[tlast.node]) = 2
  /\ add_args[tlast.node][1] = Leaf
  /\ add_args[tlast.node][2].t = "SubTree"
  /\ add_args[tlast.node][2].id # tlast.node
  /\ add_args[add_args[tlast.node][2].id] # <<>>
  /\ tlast.yielded = <<Leaf, add_args[tlast.node][2]>>

(* C13: a get_parent call raises ValueError on a SubTree constructed      *)
(* without parent and returns the parent the SubTree was constructed with  *)
(* otherwise, whatever was added since; the call changes no SubTree.       *)
C13_GetParent ==
  [][tlast'.op = "get_parent" =>
       /\ trees' = trees
       /\ IF IsNone(parent_arg[tlast'.node])
          THEN tlast'.exc = "ValueError"
          ELSE /\ tlast'.exc = "none"
               /\ tlast'.val = parent_arg[tlast'.node]]_vars

(* C13 witness: get_parent returned the parent of a SubTree after items   *)
(* were added to the SubTree and to its parent.                            *)
C13_Witness ==
  /\ tlast.op = "get_parent" /\ tlast.exc = "none"
  /\ tlast.val.t = "SubTree"
  /\ add_args[tlast.node] # <<>>
  /\ add_args[tlast.val.id] # <<>>
====
